---- MODULE Spec2Model ----
(***************************************************************************)
(* The two chat front-ends of the DB Chat Assistant (frontend.py and       *)
(* mainapp.py): one Streamlit script run per user input.  Texts are        *)
(* sequences of one-character strings, so that lower(), strip(), split(),  *)
(* replace(), startswith() and the substring test are computed character   *)
(* by character, as Python computes them.                                  *)
(***************************************************************************)
EXTENDS Integers, Sequences, FiniteSets, TLC

VARIABLES
    app,                 \* which script is running: "frontend" or "mainapp"
    connected,           \* "db" in st.session_state
    chat,                \* st.session_state.chat
    pending_delete,      \* st.session_state.pending_delete (frontend.py)
    last_modified_table, \* st.session_state.last_modified_table (mainapp.py)
    question,            \* the input of the last script run
    sql,                 \* the statement generated in the last run, or None
    engineLog,           \* statements handed to the database in the last run, with outcomes
    oracleLog,           \* calls of the language model in the last run
    escaped,             \* an exception left the handler in the last run
    pre,                 \* the session state when the last run began
    gen,                 \* number of requests made to the SQL generator so far
    pending_id,          \* which request the pending statement comes from
    executedIds,         \* requests whose statement reached the database
    cancelledIds,        \* requests pending when another input arrived
    supersededIds        \* requests pending when a new delete was generated

vars == <<app, connected, chat, pending_delete, last_modified_table, question,
          sql, engineLog, oracleLog, escaped, pre, gen, pending_id,
          executedIds, cancelledIds, supersededIds>>

\* Cap on the number of questions sent to the SQL generator in one session.
MaxAsk == 2

\* Python None in a slot that otherwise holds a text
None == <<"None">>

\* a truth test that takes every value of the slot, None included, as set
Truthy_always(x) == TRUE

\* the truth value Python gives a text or None
Truthy(x) == x # None /\ x # <<>>

-----------------------------------------------------------------------------
(* Python str operations on sequences of characters *)

UpperChars == <<"A","B","C","D","E","F","G","H","I","J","K","L","M",
                "N","O","P","Q","R","S","T","U","V","W","X","Y","Z">>
LowerChars == <<"a","b","c","d","e","f","g","h","i","j","k","l","m",
                "n","o","p","q","r","s","t","u","v","w","x","y","z">>

UpperSet == {UpperChars[i] : i \in 1..26}
LowerOf == [c \in UpperSet |-> LowerChars[CHOOSE i \in 1..26 : UpperChars[i] = c]]

LowerChar(c) == IF c \in UpperSet THEN LowerOf[c] ELSE c

\* str.lower()
Lower(s) == [i \in 1..Len(s) |-> LowerChar(s[i])]

\* characters str.strip() and str.split() treat as whitespace
Whitespace == {" ", "\t", "\n"}

\* pat occurs in s at position i
MatchAt(s, pat, i) ==
    /\ i + Len(pat) - 1 <= Len(s)
    /\ \A j \in 1..Len(pat) : s[i + j - 1] = pat[j]

\* pat in s
Contains(s, pat) == \E i \in 1..(Len(s) + 1) : MatchAt(s, pat, i)

\* s.startswith(pat)
StartsWith(s, pat) == MatchAt(s, pat, 1)

RECURSIVE LStrip(_)
LStrip(s) == IF s # <<>> /\ Head(s) \in Whitespace THEN LStrip(Tail(s)) ELSE s

RECURSIVE RStrip(_)
RStrip(s) ==
    IF s # <<>> /\ s[Len(s)] \in Whitespace
    THEN RStrip(SubSeq(s, 1, Len(s) - 1))
    ELSE s

\* str.strip()
Strip(s) == RStrip(LStrip(s))

\* s.replace(pat, ""): leftmost non-overlapping occurrences removed
RECURSIVE Remove(_, _)
Remove(s, pat) ==
    IF s = <<>> THEN <<>>
    ELSE IF MatchAt(s, pat, 1)
         THEN Remove(SubSeq(s, Len(pat) + 1, Len(s)), pat)
         ELSE <<Head(s)>> \o Remove(Tail(s), pat)

\* str.split(): the maximal runs of non-whitespace characters
RECURSIVE SplitFrom(_, _)
SplitFrom(s, cur) ==
    IF s = <<>> THEN (IF cur = <<>> THEN <<>> ELSE <<cur>>)
    ELSE IF Head(s) \in Whitespace
         THEN (IF cur = <<>> THEN <<>> ELSE <<cur>>) \o SplitFrom(Tail(s), <<>>)
         ELSE SplitFrom(Tail(s), Append(cur, Head(s)))

Split(s) == SplitFrom(s, <<>>)

-----------------------------------------------------------------------------
(* Words and texts the environment supplies *)

SP == <<" ">>
TAB == <<"\t">>
NL == <<"\n">>
\* the backquote character of a Markdown code fence (a TLA+ string cannot hold it)
BQ == "#"
Fence == <<BQ, BQ, BQ>>
FenceSql == <<BQ, BQ, BQ, "s", "q", "l">>

kw_drop == <<"d","r","o","p"," ">>
kw_truncate == <<"t","r","u","n","c","a","t","e"," ">>
kw_alter == <<"a","l","t","e","r"," ">>
kw_delete == <<"d","e","l","e","t","e">>
kw_insert == <<"i","n","s","e","r","t">>
kw_update == <<"u","p","d","a","t","e">>
err_1451 == <<"1","4","5","1">>
err_1452 == <<"1","4","5","2">>

W_DELETE == <<"D","E","L","E","T","E">>
W_FROM == <<"F","R","O","M">>
W_INSERT == <<"I","N","S","E","R","T">>
W_INTO == <<"I","N","T","O">>
W_UPDATE == <<"U","P","D","A","T","E">>
W_SET == <<"S","E","T">>
W_SELECT == <<"S","E","L","E","C","T">>
W_DROP == <<"D","R","O","P">>
W_TABLE == <<"T","A","B","L","E">>
W_orders == <<"o","r","d","e","r","s">>
W_users == <<"u","s","e","r","s">>
W_VALUES1 == <<"V","A","L","U","E","S","(","1",")">>
W_cols == <<"(","a",")">>
W_one == <<"1">>
W_assign == <<"a","=","1">>
W_eq1 == <<"=","1">>
W_alter == <<"a","l","t","e","r">>
W_truncate == <<"t","r","u","n","c","a","t","e">>
W_semi == <<";">>

\* what the language model may return when asked for SQL:
\*   a fenced DELETE FROM orders; delete from users; DELETE FROM`orders`;
\*   DELETE FROM orders; DROP TABLE orders;  DROP TABLE users;
\*   DROP<tab>TABLE users;  INSERT INTO orders VALUES(1);
\*   INSERT orders(a)VALUES(1);  INSERT INTO truncate VALUES(1);
\*   UPDATE orders SET a=1;  UPDATE;  UPDATE`orders`SET a=1;
\*   UPDATE users SET alter =1;
\*   SELECT 1 FROM orders;  an empty fenced block
SqlContents ==
    { FenceSql \o NL \o W_DELETE \o SP \o W_FROM \o SP \o W_orders \o NL \o Fence,
      kw_delete \o SP \o Lower(W_FROM) \o SP \o W_users,
      W_DELETE \o SP \o W_FROM \o <<BQ>> \o W_orders \o <<BQ>>,
      W_DELETE \o SP \o W_FROM \o SP \o W_orders \o W_semi \o SP
          \o W_DROP \o SP \o W_TABLE \o SP \o W_orders,
      W_DROP \o SP \o W_TABLE \o SP \o W_users,
      W_DROP \o TAB \o W_TABLE \o SP \o W_users,
      W_INSERT \o SP \o W_INTO \o SP \o W_orders \o SP \o W_VALUES1,
      W_INSERT \o SP \o W_orders \o W_cols \o W_VALUES1,
      W_INSERT \o SP \o W_INTO \o SP \o W_truncate \o SP \o W_VALUES1,
      W_UPDATE \o SP \o W_orders \o SP \o W_SET \o SP \o W_assign,
      W_UPDATE,
      W_UPDATE \o <<BQ>> \o W_orders \o <<BQ>> \o W_SET \o SP \o W_assign,
      W_UPDATE \o SP \o W_users \o SP \o W_SET \o SP \o W_alter \o SP \o W_eq1,
      W_SELECT \o SP \o W_one \o SP \o W_FROM \o SP \o W_orders,
      Fence \o NL \o Fence }

\* str(e) of the exception a failed language-model call raises
OracleErrorStr == <<"q","u","o","t","a">>

\* chain.invoke(...) of the SQL prompt: raises, or returns a message with content
SqlOracle == {[raises |-> TRUE, content |-> <<>>]}
             \cup {[raises |-> FALSE, content |-> c] : c \in SqlContents}

\* chain.invoke(...) of the response prompt
ResponseOracle == { [raises |-> TRUE, content |-> <<>>],
                    [raises |-> FALSE, content |-> SP \o <<"o","k">> \o NL] }

\* db.run / pd.read_sql: returns the result (empty when no row matched) or
\* raises an error whose text carries the MySQL error code
E_1064 == <<"1","0","6","4">>
EngineOutcomes ==
    { [ok |-> TRUE, code |-> 0, data |-> <<>>],
      [ok |-> TRUE, code |-> 0, data |-> <<"r","o","w">>],
      [ok |-> FALSE, code |-> 1451, data |-> err_1451 \o SP \o <<"c","h","i","l","d">>],
      [ok |-> FALSE, code |-> 1452, data |-> err_1452 \o SP \o <<"p","a","r","e","n","t">>],
      [ok |-> FALSE, code |-> 1064, data |-> E_1064 \o SP \o <<"s","y","n","t","a","x">>] }

\* what MySQL can answer to a statement run on a write path: the empty text
\* and a lone keyword are not statements (syntax error 1064); error 1451
\* (cannot delete or update a parent row) is not raised by an insert and
\* error 1452 (cannot add or update a child row) is not raised by a delete
WriteOutcomes(query) ==
    LET words == Split(Lower(query))
    IN  IF Len(words) < 2 THEN {o \in EngineOutcomes : o.code = 1064}
        ELSE IF StartsWith(words[1], kw_insert)
        THEN {o \in EngineOutcomes : o.code # 1451}
        ELSE IF StartsWith(words[1], kw_delete)
        THEN {o \in EngineOutcomes : o.code # 1452}
        ELSE EngineOutcomes

\* what MySQL can answer to a statement run on the read path
ReadOutcomes(query) ==
    IF Len(Split(Lower(query))) < 2 THEN {o \in EngineOutcomes : o.code = 1064}
    ELSE {o \in EngineOutcomes : o.code \in {0, 1064}}

\* what the user may type into st.chat_input (never the empty text)
CONFIRM == "CONFIRM DELETE"
Questions == {CONFIRM, "confirm delete"}

-----------------------------------------------------------------------------
(* frontend.py *)

\* get_schema: the table info, or {} when fetching it fails
frontend_get_schema(schemaOk) == IF schemaOk THEN "table_info" ELSE "{}"

\* generate_sql: one model call, fences and surrounding whitespace removed
frontend_generate_sql(q, schemaOk, ora) ==
    [ prompt |-> [call |-> "generate_sql", schema |-> frontend_get_schema(schemaOk),
                  question |-> q],
      raised |-> ora.raises,
      sql |-> IF ora.raises THEN None
              ELSE Strip(Remove(Remove(Strip(ora.content), FenceSql), Fence)) ]

\* frontend_is_safe_sql with "alter " missing from the blocked list
frontend_is_safe_sql_no_alter(query) ==
    ~ \E word \in {kw_drop, kw_truncate} : Contains(Lower(query), word)

frontend_is_safe_sql(query) ==
    ~ \E word \in {kw_drop, kw_truncate, kw_alter} : Contains(Lower(query), word)

\* frontend_is_delete_sql without the lower()
frontend_is_delete_sql_cased(query) == StartsWith(Strip(query), kw_delete)

frontend_is_delete_sql(query) == StartsWith(Lower(Strip(query)), kw_delete)

frontend_is_insert_sql(query) == StartsWith(Lower(Strip(query)), kw_insert)

frontend_is_update_sql(query) == StartsWith(Lower(Strip(query)), kw_update)

Msg(fmt, arg) == [fmt |-> fmt, arg |-> arg]

\* no answer was assigned: an exception left the handler first
NoReply == Msg("", <<>>)

\* frontend_safe_run_query catching only the two foreign-key errors
frontend_safe_run_query_fk_only(query, eng) ==
    IF eng.ok
    THEN [message |-> Msg("SQL executed successfully.", <<>>),
          result |-> eng.data, raised |-> FALSE]
    ELSE IF Contains(eng.data, err_1451)
    THEN [message |-> Msg("Cannot perform operation: Related child rows exist (foreign key constraint).", <<>>),
          result |-> None, raised |-> FALSE]
    ELSE IF Contains(eng.data, err_1452)
    THEN [message |-> Msg("Cannot perform operation: Foreign key constraint violated.", <<>>),
          result |-> None, raised |-> FALSE]
    ELSE [message |-> NoReply, result |-> None, raised |-> TRUE]

\* safe_run_query: (message, result); every engine error is caught
frontend_safe_run_query(query, eng) ==
    IF eng.ok
    THEN [message |-> Msg("SQL executed successfully.", <<>>),
          result |-> eng.data, raised |-> FALSE]
    ELSE IF Contains(eng.data, err_1451)
    THEN [message |-> Msg("Cannot perform operation: Related child rows exist (foreign key constraint).", <<>>),
          result |-> None, raised |-> FALSE]
    ELSE IF Contains(eng.data, err_1452)
    THEN [message |-> Msg("Cannot perform operation: Foreign key constraint violated.", <<>>),
          result |-> None, raised |-> FALSE]
    ELSE [message |-> Msg("SQL Error: {e}", eng.data),
          result |-> None, raised |-> FALSE]

\* generate_response: one model call on question, query and result
frontend_generate_response(q, query, result, ora) ==
    [ prompt |-> [call |-> "generate_response", question |-> q, query |-> query,
                  result |-> result],
      raised |-> ora.raises,
      text |-> IF ora.raises THEN <<>> ELSE Strip(ora.content) ]

-----------------------------------------------------------------------------
(* mainapp.py *)

\* get_schema: the table info, or "" when fetching it fails
mainapp_get_schema(schemaOk) == IF schemaOk THEN "table_info" ELSE ""

\* generate_sql: one model call, fences removed, then stripped
mainapp_generate_sql(q, schemaOk, ora) ==
    [ prompt |-> [call |-> "generate_sql", schema |-> mainapp_get_schema(schemaOk),
                  question |-> q],
      raised |-> ora.raises,
      sql |-> IF ora.raises THEN None
              ELSE Strip(Remove(Remove(ora.content, FenceSql), Fence)) ]

mainapp_is_safe_sql(query) ==
    ~ \E word \in {kw_drop, kw_truncate, kw_alter} : Contains(Lower(query), word)

mainapp_is_delete_sql(query) == StartsWith(Lower(query), kw_delete)

mainapp_is_insert_sql(query) == StartsWith(Lower(query), kw_insert)

mainapp_is_update_sql(query) == StartsWith(Lower(query), kw_update)

\* str(e) of the IndexError that words[i] raises past the end of the list
IndexErrorStr == <<"l","i","s","t"," ","i","n","d","e","x"," ","o","u","t"," ",
                   "o","f"," ","r","a","n","g","e">>

\* words[i] of safe_run_query, i counted from 0; raises IndexError past the end
Word(words, i) ==
    IF i + 1 <= Len(words)
    THEN [raised |-> FALSE, value |-> words[i + 1]]
    ELSE [raised |-> TRUE, value |-> None]

\* the table lookup of safe_run_query after the statement has run
mainapp_table(query) ==
    LET words == Split(Lower(query))
        w0 == Word(words, 0)
    IN  IF w0.raised THEN w0
        ELSE IF w0.value = kw_insert THEN Word(words, 2)
        ELSE IF w0.value = kw_update THEN Word(words, 1)
        ELSE IF w0.value = kw_delete THEN Word(words, 2)
        ELSE [raised |-> FALSE, value |-> None]

\* str(table) inside the f-string
Str(x) == IF x = None THEN <<"N","o","n","e">> ELSE x

\* mainapp_safe_run_query with the table lookup after the try block
mainapp_safe_run_query_lookup_outside(query, eng) ==
    IF ~eng.ok
    THEN [message |-> Msg("SQL Error: {e}", eng.data), store |-> FALSE,
          table |-> None, raised |-> FALSE]
    ELSE LET t == mainapp_table(query)
         IN  IF t.raised
             THEN [message |-> NoReply, store |-> FALSE, table |-> None, raised |-> TRUE]
             ELSE [message |-> Msg("Changes saved in {table}", Str(t.value)),
                   store |-> TRUE, table |-> t.value, raised |-> FALSE]

\* safe_run_query: runs the statement, records the table, returns the message;
\* store tells whether last_modified_table was assigned
mainapp_safe_run_query(query, eng) ==
    IF ~eng.ok
    THEN [message |-> Msg("SQL Error: {e}", eng.data), store |-> FALSE,
          table |-> None, raised |-> FALSE]
    ELSE LET t == mainapp_table(query)
         IN  IF t.raised
             THEN [message |-> Msg("SQL Error: {e}", IndexErrorStr), store |-> FALSE,
                   table |-> None, raised |-> FALSE]
             ELSE [message |-> Msg("Changes saved in {table}", Str(t.value)),
                   store |-> TRUE, table |-> t.value, raised |-> FALSE]

\* df.to_markdown(index=False)
to_markdown(data) == <<"|">> \o data \o <<"|">>

-----------------------------------------------------------------------------
(* The session *)

\* one statement handed to the database, and what the database did with it
Call(query, eng) == [query |-> query, outcome |-> eng]

User(q) == [role |-> "user", content |-> q]
Assistant(a) == [role |-> "assistant", content |-> a]

\* the keyword test and the delete test in the words of the specification
BlockedText(s) == \E kw \in {kw_drop, kw_truncate, kw_alter} : Contains(Lower(s), kw)
DeleteText(s) == StartsWith(Lower(Strip(s)), kw_delete)

Snapshot == [chat |-> chat, pending_delete |-> pending_delete,
             pending_id |-> pending_id, last_modified_table |-> last_modified_table,
             connected |-> connected, gen |-> gen]

Init ==
    /\ app \in {"frontend", "mainapp"}
    /\ connected = FALSE
    /\ chat = <<>>
    /\ pending_delete = None
    /\ last_modified_table = None
    /\ question = ""
    /\ sql = None
    /\ engineLog = <<>>
    /\ oracleLog = <<>>
    /\ escaped = FALSE
    /\ pre = [chat |-> <<>>, pending_delete |-> None, pending_id |-> 0,
              last_modified_table |-> None, connected |-> FALSE, gen |-> 0]
    /\ gen = 0
    /\ pending_id = 0
    /\ executedIds = {}
    /\ cancelledIds = {}
    /\ supersededIds = {}

\* connect_database: SQLDatabase.from_uri succeeds and "db" is set, or it
\* raises and the session is left as it was
ConnectDB ==
    /\ \E ok \in BOOLEAN : connected' = (connected \/ ok)
    /\ UNCHANGED <<app, chat, pending_delete, last_modified_table, question, sql,
                   engineLog, oracleLog, escaped, pre, gen, pending_id,
                   executedIds, cancelledIds, supersededIds>>

\* a run that appends the user entry before it tests for the connection
Ignore_appends(q) ==
    /\ chat' = Append(chat, User(q))
    /\ question' = q
    /\ sql' = None
    /\ engineLog' = <<>>
    /\ oracleLog' = <<>>
    /\ escaped' = FALSE
    /\ pre' = Snapshot
    /\ UNCHANGED <<app, connected, pending_delete, last_modified_table, gen,
                   pending_id, executedIds, cancelledIds, supersededIds>>

\* a script run with an input while "db" is not in the session: st.error only
Ignore(q) ==
    /\ question' = q
    /\ sql' = None
    /\ engineLog' = <<>>
    /\ oracleLog' = <<>>
    /\ escaped' = FALSE
    /\ pre' = Snapshot
    /\ UNCHANGED <<app, connected, chat, pending_delete, last_modified_table, gen,
                   pending_id, executedIds, cancelledIds, supersededIds>>

\* the effect of one handler run: q is appended as the user entry; reply is
\* appended as the assistant entry unless an exception left the handler (esc);
\* s is the generated statement (None when none was generated); pend and lmt
\* are the session slots after the run (pid: the request pend comes from);
\* elog the statements run and olog the prompts sent
Run(q, s, reply, esc, pend, pid, lmt, elog, olog) ==
    /\ chat' = chat \o <<User(q)>> \o (IF esc THEN <<>> ELSE <<Assistant(reply)>>)
    /\ pending_delete' = pend
    /\ last_modified_table' = lmt
    /\ question' = q
    /\ sql' = s
    /\ engineLog' = elog
    /\ oracleLog' = [i \in 1..Len(olog) |-> olog[i].call]
    /\ escaped' = esc
    /\ pre' = Snapshot
    /\ gen' = IF olog # <<>> THEN gen + 1 ELSE gen
    /\ pending_id' = pid
    /\ executedIds' = executedIds \cup
                        (IF elog = <<>> THEN {}
                         ELSE IF s # None THEN {gen + 1} ELSE {pending_id})
    /\ cancelledIds' = cancelledIds \cup
                        (IF Truthy(pending_delete) /\ q # CONFIRM
                         THEN {pending_id} ELSE {})
    /\ supersededIds' = supersededIds \cup
                        (IF Truthy(pending_delete) /\ s # None
                            /\ DeleteText(s) /\ ~BlockedText(s)
                         THEN {pending_id} ELSE {})
    /\ UNCHANGED <<app, connected>>

\* frontend.py, "if question:" ... chat.append(assistant)
FrontendTurn ==
    /\ app = "frontend"
    /\ \E q \in Questions :
        IF ~connected THEN Ignore(q)
        ELSE
        IF q = CONFIRM /\ Truthy(pending_delete)
           THEN \E eng \in WriteOutcomes(pending_delete) :
                \E r \in {frontend_safe_run_query(pending_delete, eng)} :
                IF r.raised
                THEN Run(q, None, NoReply, TRUE, pending_delete, pending_id,
                         last_modified_table, <<Call(pending_delete, eng)>>, <<>>)
                ELSE Run(q, None, r.message, FALSE, None, 0,
                         last_modified_table, <<Call(pending_delete, eng)>>, <<>>)
           ELSE gen < MaxAsk /\
                \E ora \in SqlOracle, schemaOk \in BOOLEAN :
                \E g \in {frontend_generate_sql(q, schemaOk, ora)} :
                IF g.raised
                THEN Run(q, None, NoReply, TRUE, pending_delete, pending_id,
                         last_modified_table, <<>>, <<g.prompt>>)
                ELSE IF ~frontend_is_safe_sql(g.sql)
                THEN Run(q, g.sql, Msg("Unsafe SQL detected. Query blocked.", <<>>),
                         FALSE, pending_delete, pending_id, last_modified_table,
                         <<>>, <<g.prompt>>)
                ELSE IF frontend_is_delete_sql(g.sql)
                THEN Run(q, g.sql, Msg("Type **CONFIRM DELETE** to proceed.", <<>>),
                         FALSE, g.sql, gen + 1, last_modified_table,
                         <<>>, <<g.prompt>>)
                ELSE IF frontend_is_insert_sql(g.sql) \/ frontend_is_update_sql(g.sql)
                THEN \E eng \in WriteOutcomes(g.sql) :
                     \E r \in {frontend_safe_run_query(g.sql, eng)} :
                     IF r.raised
                     THEN Run(q, g.sql, NoReply, TRUE, pending_delete, pending_id,
                              last_modified_table, <<Call(g.sql, eng)>>, <<g.prompt>>)
                     ELSE Run(q, g.sql, r.message, FALSE, pending_delete, pending_id,
                              last_modified_table, <<Call(g.sql, eng)>>, <<g.prompt>>)
                ELSE \E eng \in ReadOutcomes(g.sql) :
                     IF ~eng.ok
                     THEN Run(q, g.sql, Msg("SQL Error:\n{e}", eng.data), FALSE,
                              pending_delete, pending_id, last_modified_table,
                              <<Call(g.sql, eng)>>, <<g.prompt>>)
                     ELSE \E ora2 \in ResponseOracle :
                          \E a \in {frontend_generate_response(q, g.sql, eng.data, ora2)} :
                          IF a.raised
                          THEN Run(q, g.sql, Msg("SQL Error:\n{e}", OracleErrorStr), FALSE,
                                   pending_delete, pending_id, last_modified_table,
                                   <<Call(g.sql, eng)>>, <<g.prompt, a.prompt>>)
                          ELSE Run(q, g.sql, Msg("{response}", a.text), FALSE,
                                   pending_delete, pending_id, last_modified_table,
                                   <<Call(g.sql, eng)>>, <<g.prompt, a.prompt>>)

\* mainapp.py, "if question:" ... chat.append(assistant)
MainappTurn ==
    /\ app = "mainapp"
    /\ \E q \in Questions :
        IF ~connected THEN Ignore(q)
        ELSE
        /\ gen < MaxAsk
        /\ \E ora \in SqlOracle, schemaOk \in BOOLEAN :
           \E g \in {mainapp_generate_sql(q, schemaOk, ora)} :
           IF g.raised
           THEN Run(q, None, NoReply, TRUE, pending_delete, pending_id,
                    last_modified_table, <<>>, <<g.prompt>>)
           ELSE IF ~mainapp_is_safe_sql(g.sql)
           THEN Run(q, g.sql, Msg("Unsafe SQL blocked", <<>>), FALSE,
                    pending_delete, pending_id, last_modified_table,
                    <<>>, <<g.prompt>>)
           ELSE IF mainapp_is_insert_sql(g.sql) \/ mainapp_is_update_sql(g.sql)
                   \/ mainapp_is_delete_sql(g.sql)
           THEN \E eng \in WriteOutcomes(g.sql) :
                \E r \in {mainapp_safe_run_query(g.sql, eng)} :
                IF r.raised
                THEN Run(q, g.sql, NoReply, TRUE, pending_delete, pending_id,
                         last_modified_table, <<Call(g.sql, eng)>>, <<g.prompt>>)
                ELSE Run(q, g.sql, r.message, FALSE, pending_delete, pending_id,
                         IF r.store THEN r.table ELSE last_modified_table,
                         <<Call(g.sql, eng)>>, <<g.prompt>>)
           ELSE \E eng \in ReadOutcomes(g.sql) :
                IF ~eng.ok
                THEN Run(q, g.sql, Msg("SQL Error: {e}", eng.data), FALSE,
                         pending_delete, pending_id, last_modified_table,
                         <<Call(g.sql, eng)>>, <<g.prompt>>)
                ELSE IF eng.data = <<>>
                THEN Run(q, g.sql,
                         Msg("Query executed successfully but returned 0 rows.", <<>>),
                         FALSE, pending_delete, pending_id, last_modified_table,
                         <<Call(g.sql, eng)>>, <<g.prompt>>)
                ELSE Run(q, g.sql, Msg("Query Result {md_table}", to_markdown(eng.data)),
                         FALSE, pending_delete, pending_id, last_modified_table,
                         <<Call(g.sql, eng)>>, <<g.prompt>>)

Next == ConnectDB \/ FrontendTurn \/ MainappTurn

Spec == Init /\ [][Next]_vars

-----------------------------------------------------------------------------
(* Vocabulary of the properties: the last handler run *)

\* the last script run had an input and a connected database
Handled == question # "" /\ pre.connected

\* a statement was generated in the last run
Generated == Handled /\ sql # None

\* the last transcript entry
Last == chat[Len(chat)]

\* the last run appended the user entry and then one assistant entry
Replied ==
    /\ Len(chat) = Len(pre.chat) + 2
    /\ SubSeq(chat, 1, Len(pre.chat)) = pre.chat
    /\ chat[Len(chat) - 1] = User(question)
    /\ Last.role = "assistant"

InsertText(s) == StartsWith(Lower(Strip(s)), kw_insert)
UpdateText(s) == StartsWith(Lower(Strip(s)), kw_update)

ConfirmPrompt == "Type **CONFIRM DELETE** to proceed."

-----------------------------------------------------------------------------
(* C1 -- C5: the confirmation gate *)

\* C1: a generated, unblocked statement starting with "delete" is not run in
\* the turn that generated it: that turn stores it as the pending statement
\* and replies with the confirmation prompt; a delete statement is run only
\* in a turn whose input is exactly CONFIRM DELETE.
C1_DeleteWaitsForConfirmation ==
    /\ (Generated /\ DeleteText(sql) /\ ~BlockedText(sql)) =>
          /\ engineLog = <<>>
          /\ pending_delete = sql
          /\ Replied
          /\ Last.content.fmt = ConfirmPrompt
    /\ \A i \in 1..Len(engineLog) :
          DeleteText(engineLog[i].query) => (question = CONFIRM /\ sql = None)

\* C2: with a delete pending, an input other than CONFIRM DELETE discards it:
\* the slot no longer holds it and no later turn runs it.
C2_OtherInputDiscardsPending ==
    /\ pending_id \notin cancelledIds
    /\ cancelledIds \cap executedIds = {}

\* C3: with a delete pending, the input CONFIRM DELETE runs the stored text
\* exactly once, calls no language model, and leaves the slot empty whether
\* the database succeeded or raised; the stored text is the generated text.
C3_ConfirmRunsPendingOnce ==
    /\ (Handled /\ question = CONFIRM /\ Truthy(pre.pending_delete)) =>
          /\ Len(engineLog) = 1
          /\ engineLog[1].query = pre.pending_delete
          /\ oracleLog = <<>>
          /\ sql = None
          /\ pending_delete = None
          /\ Replied
    /\ (Generated /\ pending_id = gen) => pending_delete = sql
    /\ (pending_id # 0 /\ pending_id = pre.pending_id) =>
          pending_delete = pre.pending_delete

\* C3 witness: a confirmed delete on which the database raised.
C3_Witness ==
    /\ Handled /\ question = CONFIRM /\ Truthy(pre.pending_delete)
    /\ Len(engineLog) = 1 /\ ~engineLog[1].outcome.ok
    /\ pending_delete = None

\* C4: a generated statement whose lowercased text contains "drop ",
\* "truncate " or "alter " is never run, whatever it starts with: the turn
\* stores no pending statement and replies with the fixed refusal.
C4_BlockedNeverRuns ==
    (Generated /\ BlockedText(sql)) =>
        /\ engineLog = <<>>
        /\ executedIds = executedIds \ {gen}
        /\ pending_delete = pre.pending_delete
        /\ pending_id = pre.pending_id
        /\ Replied
        /\ Last.content.fmt = IF app = "frontend"
                              THEN "Unsafe SQL detected. Query blocked."
                              ELSE "Unsafe SQL blocked"

\* C4 witness: a blocked statement that starts with "update".
C4_Witness ==
    /\ Generated /\ BlockedText(sql) /\ UpdateText(sql)
    /\ engineLog = <<>>

\* C5: there is one pending slot; a delete generated while another is pending
\* replaces it, and the replaced one is never run afterwards.
C5_NoStacking ==
    /\ (pending_delete = None) <=> (pending_id = 0)
    /\ (Generated /\ Truthy(pre.pending_delete) /\ DeleteText(sql)
            /\ ~BlockedText(sql)) =>
          (pending_delete = sql /\ pending_id = gen)
    /\ pending_id \notin supersededIds
    /\ supersededIds \cap executedIds = {}

\* C5 witness: a second, different delete generated while one was pending.
C5_Witness ==
    /\ Generated /\ Truthy(pre.pending_delete) /\ DeleteText(sql)
    /\ sql # pre.pending_delete
    /\ pending_delete = sql

-----------------------------------------------------------------------------
(* C6 -- C10: failures and replies *)

WriteText(s) == InsertText(s) \/ UpdateText(s) \/ DeleteText(s)

\* the whitespace-delimited tokens of the lowercased text
Tokens(s) == Split(Lower(s))

\* the token the specification names as target table, None when it is missing
TargetToken(s) ==
    LET n == IF UpdateText(s) THEN 2 ELSE 3
    IN  IF Len(Tokens(s)) >= n THEN Tokens(s)[n] ELSE None

\* too few tokens for the target table
TooFewTokens(s) == TargetToken(s) = None

ChildRowsMsg == "Cannot perform operation: Related child rows exist (foreign key constraint)."
ForeignKeyMsg == "Cannot perform operation: Foreign key constraint violated."
SqlErrorMsg == "SQL Error: {e}"
NoRowsMsg == "Query executed successfully but returned 0 rows."
SavedMsg == "Changes saved in {table}"

\* C6: every failure inside a turn becomes an assistant reply: a run that
\* appends the user entry also appends one assistant entry, and no exception
\* leaves the handler.
C6_EveryFailureBecomesReply == Handled => (~escaped /\ Replied)

\* C7: when the database raises on a write or a confirmed delete, the reply
\* follows the error code: 1451 the child-rows message, 1452 the foreign-key
\* message, any other code the generic SQL error with the raw message; the
\* statement is run once.
C7_EngineErrorsMappedByCode ==
    \A i \in 1..Len(engineLog) :
        (~engineLog[i].outcome.ok /\ WriteText(engineLog[i].query)) =>
            /\ Len(engineLog) = 1
            /\ Replied
            /\ Last.content.fmt =
                  IF engineLog[i].outcome.code = 1451 THEN ChildRowsMsg
                  ELSE IF engineLog[i].outcome.code = 1452 THEN ForeignKeyMsg
                  ELSE SqlErrorMsg
            /\ engineLog[i].outcome.code \notin {1451, 1452} =>
                  Last.content.arg = engineLog[i].outcome.data

\* C8: a read statement that the database runs successfully with zero rows
\* gets the fixed "no rows" reply, and the language model is not asked to
\* write an answer from the empty result.
C8_EmptyReadGetsNoRowsReply ==
    (Generated /\ ~BlockedText(sql) /\ ~WriteText(sql) /\ Len(engineLog) = 1
        /\ engineLog[1].outcome.ok /\ engineLog[1].outcome.data = <<>>) =>
        /\ Replied
        /\ Last.content.fmt = NoRowsMsg
        /\ \A i \in 1..Len(oracleLog) : oracleLog[i] # "generate_response"

\* C9: an unblocked insert or update is run in the turn that generated it,
\* and when the database succeeds on a write the reply is the success message
\* naming the target table: the 3rd token for insert and delete, the 2nd for
\* update.
C9_WritesRunAndNameTable ==
    /\ (Generated /\ ~BlockedText(sql) /\ (InsertText(sql) \/ UpdateText(sql))) =>
          (Len(engineLog) = 1 /\ engineLog[1].query = sql)
    /\ \A i \in 1..Len(engineLog) :
          (engineLog[i].outcome.ok /\ WriteText(engineLog[i].query)) =>
              /\ Replied
              /\ Last.content.fmt = SavedMsg
              /\ Last.content.arg = TargetToken(engineLog[i].query)

\* C10: a write statement with too few tokens for the target table does not
\* break the turn: no exception leaves the handler and the assistant entry is
\* appended; in mainapp.py, where the lookup is made after a successful run,
\* the reply carries the lookup's error.
C10_ShortWriteIsSoftFailure ==
    (Generated /\ ~BlockedText(sql) /\ WriteText(sql) /\ TooFewTokens(sql)) =>
        /\ ~escaped
        /\ Replied
        /\ (app = "mainapp" /\ engineLog[1].outcome.ok
                /\ Tokens(sql)[1] \in {kw_insert, kw_update, kw_delete}) =>
              (Last.content.fmt = SqlErrorMsg /\ Last.content.arg = IndexErrorStr)

\* C10 witness: mainapp.py ran a two-token insert and the lookup failed.
C10_Witness ==
    /\ app = "mainapp"
    /\ Generated /\ InsertText(sql) /\ Len(Tokens(sql)) = 2
    /\ Len(engineLog) = 1 /\ engineLog[1].outcome.ok
    /\ ~escaped /\ Replied
    /\ Last.content.arg = IndexErrorStr

-----------------------------------------------------------------------------
(* C11 -- C16: outcomes, the engine, and what a turn leaves alone *)

\* the outcome the specification gives a turn: the confirmation branch, or
\* the class of the generated text tested in the order blocked, delete,
\* insert/update, read; "none" when the turn produced no statement
ExpectedOutcome ==
    IF sql = None
    THEN IF question = CONFIRM /\ pre.pending_delete # None
         THEN "confirmed-delete" ELSE "none"
    ELSE IF BlockedText(sql) THEN "blocked"
    ELSE IF DeleteText(sql) THEN "pending-confirmation"
    ELSE IF InsertText(sql) \/ UpdateText(sql) THEN "executed-write"
    ELSE "executed-read"

RefusalMsgs == {"Unsafe SQL detected. Query blocked.", "Unsafe SQL blocked"}
WriteSuccessMsgs == {"SQL executed successfully.", SavedMsg}

\* what each outcome leaves behind in the session
TookBlocked ==
    /\ engineLog = <<>> /\ Replied /\ Last.content.fmt \in RefusalMsgs
    /\ pending_delete = pre.pending_delete

TookPending ==
    /\ engineLog = <<>> /\ Replied /\ Last.content.fmt = ConfirmPrompt
    /\ pending_delete = sql

RanGenerated ==
    /\ Len(engineLog) = 1 /\ engineLog[1].query = sql
    /\ Replied /\ Last.content.fmt \notin RefusalMsgs \cup {ConfirmPrompt}
    /\ pending_delete = pre.pending_delete

TookWrite ==
    /\ RanGenerated
    /\ \A i \in 1..Len(oracleLog) : oracleLog[i] # "generate_response"

TookRead ==
    /\ RanGenerated
    /\ Last.content.fmt \notin WriteSuccessMsgs
    /\ last_modified_table = pre.last_modified_table

TookConfirmed ==
    /\ Len(engineLog) = 1 /\ engineLog[1].query = pre.pending_delete
    /\ oracleLog = <<>> /\ Replied /\ pending_delete = None

\* C11: every turn takes exactly one outcome, chosen in the order blocked,
\* delete (pending confirmation), insert/update (executed write), read
\* (executed read), or the confirmed delete; the engine is asked at most once
\* in a turn, and not at all in a blocked or pending-confirmation turn.
C11_OneOutcomePerTurn ==
    Handled =>
        /\ Len(engineLog) <= 1
        /\ CASE ExpectedOutcome = "blocked" -> TookBlocked
             [] ExpectedOutcome = "pending-confirmation" -> TookPending
             [] ExpectedOutcome = "executed-write" -> TookWrite
             [] ExpectedOutcome = "executed-read" -> TookRead
             [] ExpectedOutcome = "confirmed-delete" -> TookConfirmed
             [] OTHER -> FALSE

\* the part of C11 the code keeps: the engine is asked at most once in a
\* turn, and never in a turn that refused or asked for confirmation
EngineAtMostOnce ==
    Handled =>
        /\ Len(engineLog) <= 1
        /\ (Replied /\ Last.content.fmt \in RefusalMsgs \cup {ConfirmPrompt}) =>
              engineLog = <<>>

\* a text that holds drop, truncate or alter anywhere, whatever follows it
DestructiveText(s) ==
    \E kw \in {Lower(W_DROP), Lower(W_truncate), Lower(W_alter)} :
        Contains(Lower(s), kw)

\* C12: no statement whose text holds drop, truncate or alter as a
\* case-insensitive substring, whatever follows the keyword (a space, a tab,
\* a newline or the end of the text), is ever passed to the engine, on the
\* read path or any other.
C12_DestructiveNeverReachesEngine ==
    \A i \in 1..Len(engineLog) : ~DestructiveText(engineLog[i].query)

\* C13: for a write handled by safe_run_query the reply reports success
\* exactly when the engine ran the statement without raising: no SQL-error
\* reply follows a statement the engine has executed, and in mainapp.py
\* last_modified_table is set to the table of every statement so executed.
C13_SuccessIffEngineSucceeded ==
    \A i \in 1..Len(engineLog) :
        WriteText(engineLog[i].query) =>
            /\ Replied
            /\ (Last.content.fmt \in WriteSuccessMsgs) <=> engineLog[i].outcome.ok
            /\ engineLog[i].outcome.ok => Last.content.fmt # SqlErrorMsg
            /\ (app = "mainapp" /\ engineLog[i].outcome.ok) =>
                  last_modified_table = TargetToken(engineLog[i].query)

\* C14: when no delete is pending, the input CONFIRM DELETE runs nothing
\* through the confirmation branch: it is sent to the SQL generator as a
\* fresh question, only the statement generated in this turn can reach the
\* engine, and that statement is classified like any other.
C14_ConfirmWithoutPendingIsFresh ==
    (Handled /\ question = CONFIRM /\ pre.pending_delete = None) =>
        /\ oracleLog # <<>> /\ oracleLog[1] = "generate_sql"
        /\ gen = pre.gen + 1
        /\ sql # None \/ escaped
        /\ \A i \in 1..Len(engineLog) : engineLog[i].query = sql
        /\ sql # None =>
              IF BlockedText(sql) THEN TookBlocked
              ELSE IF DeleteText(sql) THEN (app = "frontend" => TookPending)
              ELSE IF InsertText(sql) \/ UpdateText(sql) THEN TookWrite
              ELSE TookRead

\* C14 witness: after a confirmed delete emptied the slot, frontend.py takes
\* a second CONFIRM DELETE as a question and runs the insert generated for it.
C14_Witness ==
    /\ app = "frontend" /\ Handled /\ question = CONFIRM
    /\ pre.pending_delete = None /\ pre.chat # <<>>
    /\ sql # None /\ InsertText(sql)
    /\ Len(engineLog) = 1 /\ engineLog[1].query = sql

\* C15: while no database is connected an input changes nothing in the
\* session (transcript, pending delete and last modified table stay as they
\* are, neither the language model nor the engine is called); and every step
\* leaves the existing transcript entries as they are, appending at most the
\* user entry of the input followed by one assistant entry.
C15_NothingWithoutDbAndAppendOnly ==
    [][ /\ Len(chat') >= Len(chat)
        /\ SubSeq(chat', 1, Len(chat)) = chat
        /\ Len(chat') <= Len(chat) + 2
        /\ Len(chat') > Len(chat) => chat'[Len(chat) + 1] = User(question')
        /\ Len(chat') = Len(chat) + 2 => chat'[Len(chat) + 2].role = "assistant"
        /\ ~connected =>
              /\ chat' = chat
              /\ pending_delete' = pending_delete
              /\ last_modified_table' = last_modified_table
              /\ gen' = gen /\ executedIds' = executedIds
              /\ engineLog' = <<>> /\ oracleLog' = <<>>
      ]_vars

\* C15 witness: an input arrived while no database was connected.
C15_Witness ==
    /\ question = CONFIRM /\ ~pre.connected /\ ~connected
    /\ chat = <<>> /\ pending_delete = None
    /\ engineLog = <<>> /\ oracleLog = <<>>

\* C16: last_modified_table changes only in a turn in which the engine ran a
\* write statement successfully, and the new value is the target-table token
\* of that statement, never None; blocked turns, read turns and turns whose
\* write failed leave it as it was.
C16_LastModifiedOnlyBySuccessfulWrite ==
    [][ last_modified_table' # last_modified_table =>
            /\ Len(engineLog') = 1
            /\ WriteText(engineLog'[1].query)
            /\ engineLog'[1].outcome.ok
            /\ last_modified_table' # None
            /\ last_modified_table' = TargetToken(engineLog'[1].query)
      ]_vars

\* the part of C16 the code keeps: the slot changes only in a turn whose
\* write the engine ran successfully
LastModifiedChangesOnlyOnWrite ==
    [][ last_modified_table' # last_modified_table =>
            /\ Len(engineLog') = 1
            /\ WriteText(engineLog'[1].query)
            /\ engineLog'[1].outcome.ok
            /\ last_modified_table' \in {None, TargetToken(engineLog'[1].query)}
      ]_vars

====
